---- MODULE Spec2Model ----
(***************************************************************************)
(* Model of bing_example, the coroutine of the notebook                    *)
(* docs/src/user-guide/extensions-user-guide/azure-foundry-agent.ipynb.    *)
(* The coroutine opens two nested "async with" scopes (credential, project *)
(* client), looks a connection up, builds a tool and an agent, awaits one  *)
(* on_messages call and prints its result.  Every call into the Azure SDK  *)
(* or the agent framework either completes or raises; which of the two is  *)
(* the environment's choice.                                               *)
(***************************************************************************)
EXTENDS Integers, Sequences, FiniteSets, TLC

VARIABLES env, pc, cred, client, inflight, calls, succeeded, raised, exc,
          conn, bing_tool, agent, tokens, result, outcome, retval

vars == <<env, pc, cred, client, inflight, calls, succeeded, raised, exc,
          conn, bing_tool, agent, tokens, result, outcome, retval>>

(* ------------------------------ bounds --------------------------------- *)
MaxErr  == 2     \* distinct errors an external operation may raise
MaxResp == 2     \* distinct responses on_messages may return
MaxConn == 2     \* distinct connection ids connections.get may return

(* ----------------------------- constants ------------------------------- *)
NoneVal == 0     \* Python's None / an unbound local
MessageLimit == 5

EnvNames  == {"AZURE_PROJECT_ENDPOINT", "BING_CONNECTION_NAME"}
EnvValues == {"", "configured"}
Environments == UNION {[D -> EnvValues] : D \in SUBSET EnvNames}

ErrorKinds == 1..MaxErr
Responses  == 1..MaxResp
ConnIds    == 1..MaxConn

NoExc == [op |-> "none", kind |-> 0]
Error(op, k) == [op |-> op, kind |-> k]

MessageContent == "What is Microsoft's annual leave policy? Provide citations for your answers."

(* --------------------------- pure helpers ------------------------------ *)

\* os.getenv(name, default)
getenv(name, default) ==
    IF name \in DOMAIN env THEN env[name] ELSE default

\* arguments of AIProjectClient(credential=credential, endpoint=os.getenv(...))
ProjectClientArgs ==
    [credential |-> cred, endpoint |-> getenv("AZURE_PROJECT_ENDPOINT", "")]

\* arguments of project_client.connections.get(name=os.getenv(...))
ConnectionsGetArgs == [name |-> getenv("BING_CONNECTION_NAME", "")]

\* BingGroundingTool(conn.id).definitions
Definitions(tool) == <<[type |-> "bing_grounding", connection_id |-> tool]>>

\* keyword arguments of AzureAIAgent(...)
AgentConfig(tool) ==
    [name            |-> "bing_agent",
     description     |-> "An AI assistant with Bing grounding",
     project_client  |-> client,
     deployment_name |-> "gpt-4o",
     instructions    |-> "You are a helpful assistant.",
     tools           |-> Definitions(tool),
     metadata        |-> [source |-> "AzureAIAgent"]]

\* TextMessage(content=..., source="user")
TextMessage(content, source) == [content |-> content, source |-> source]

\* the messages=[...] list of the on_messages call
MessagesDuplicated ==
    <<TextMessage(MessageContent, "user"), TextMessage(MessageContent, "user")>>
Messages == <<TextMessage(MessageContent, "user")>>

\* CancellationToken(): a fresh object, identified by its allocation number
FreshToken == Cardinality(tokens) + 1

\* keyword arguments of agent_with_bing_grounding.on_messages(...)
OnMessagesArgsNoToken(tok) ==
    [messages |-> Messages, cancellation_token |-> NoneVal,
     message_limit |-> MessageLimit]
OnMessagesArgs(tok) ==
    [messages |-> Messages, cancellation_token |-> tok,
     message_limit |-> MessageLimit]

\* print(result)
PrintArgsDropped(res) == <<NoneVal>>
PrintArgs(res) == <<res>>

\* "async def bing_example() -> None": the body has no return statement
ReturnValue(res) == NoneVal

\* await bing_example(): the call passes no arguments
CallerArgs == [a \in {} |-> NoneVal]
Supplied(param) == IF param \in DOMAIN CallerArgs THEN CallerArgs[param] ELSE NoneVal

(* Control flow of the two nested "async with" statements.                  *)
BodySteps == {"getting", "tool", "agent", "awaiting_on_messages", "print"}

\* where control continues when the step at position p completes
SuccToolBeforeGet(p) ==
    CASE p = "cred_ctor"            -> "cred_enter"
      [] p = "cred_entering"        -> "client_ctor"
      [] p = "client_ctor"          -> "client_enter"
      [] p = "client_entering"      -> "tool"
      [] p = "tool"                 -> "get"
      [] p = "getting"              -> "agent"
      [] p = "agent"                -> "on_messages"
      [] p = "awaiting_on_messages" -> "print"
      [] p = "print"                -> "client_exit"
      [] p = "client_exiting"       -> "cred_exit"
      [] p = "cred_exiting"         -> "return"
SuccCredExitFirst(p) ==
    CASE p = "cred_ctor"            -> "cred_enter"
      [] p = "cred_entering"        -> "client_ctor"
      [] p = "client_ctor"          -> "client_enter"
      [] p = "client_entering"      -> "get"
      [] p = "getting"              -> "tool"
      [] p = "tool"                 -> "agent"
      [] p = "agent"                -> "on_messages"
      [] p = "awaiting_on_messages" -> "print"
      [] p = "print"                -> "cred_exit"
      [] p = "cred_exiting"         -> "client_exit"
      [] p = "client_exiting"       -> "return"
Succ(p) ==
    CASE p = "cred_ctor"            -> "cred_enter"
      [] p = "cred_entering"        -> "client_ctor"
      [] p = "client_ctor"          -> "client_enter"
      [] p = "client_entering"      -> "get"
      [] p = "getting"              -> "tool"
      [] p = "tool"                 -> "agent"
      [] p = "agent"                -> "on_messages"
      [] p = "awaiting_on_messages" -> "print"
      [] p = "print"                -> "client_exit"
      [] p = "client_exiting"       -> "cred_exit"
      [] p = "cred_exiting"         -> "return"

\* where control continues when the step at position p raises: the innermost
\* scope that has been entered runs its __aexit__, outermost last
UnwindNoScopes(p) == "return"
UnwindSwallowLookup(p) ==
    CASE p \in {"cred_ctor", "cred_entering"}     -> "return"
      [] p \in {"client_ctor", "client_entering"} -> "cred_exit"
      [] p = "getting"                            -> "tool"
      [] p \in BodySteps \ {"getting"}            -> "client_exit"
      [] p = "client_exiting"                     -> "cred_exit"
      [] p = "cred_exiting"                       -> "return"
UnwindExitUnentered(p) ==
    CASE p \in {"cred_ctor", "cred_entering"}     -> "cred_exit"
      [] p \in {"client_ctor", "client_entering"} -> "client_exit"
      [] p \in BodySteps                          -> "client_exit"
      [] p = "client_exiting"                     -> "cred_exit"
      [] p = "cred_exiting"                       -> "return"
Unwind(p) ==
    CASE p \in {"cred_ctor", "cred_entering"}     -> "return"
      [] p \in {"client_ctor", "client_entering"} -> "cred_exit"
      [] p \in BodySteps                          -> "client_exit"
      [] p = "client_exiting"                     -> "cred_exit"
      [] p = "cred_exiting"                       -> "return"

\* the exception that leaves a step which raised e: nothing catches or wraps it
PropagatedWrapped(e) == [op |-> "bing_example", kind |-> e.kind]
Propagated(e) == e

\* a scope's __aexit__ returns None, so the exception in flight keeps going
AfterExit(e) == e

(* ------------------------------ state ---------------------------------- *)
ScopeStates == {"none", "constructed", "entering", "held", "exiting",
                "released", "release_failed", "enter_failed"}

Positions == {"cred_ctor", "cred_enter", "cred_entering",
              "client_ctor", "client_enter", "client_entering",
              "get", "getting", "tool", "agent",
              "on_messages", "awaiting_on_messages", "print",
              "client_exit", "client_exiting", "cred_exit", "cred_exiting",
              "return", "caller"}

Init ==
    /\ env \in Environments
    /\ pc = "cred_ctor"
    /\ cred = "none"
    /\ client = "none"
    /\ inflight = {}
    /\ calls = <<>>
    /\ succeeded = {}
    /\ raised = <<>>
    /\ exc = NoExc
    /\ conn = NoneVal
    /\ bing_tool = NoneVal
    /\ agent = NoneVal
    /\ tokens = {}
    /\ result = NoneVal
    /\ outcome = "running"
    /\ retval = NoneVal

(* --------------------------- step building blocks ---------------------- *)
Invoke(op, args) == calls' = Append(calls, [op |-> op, args |-> args])

Complete(op) ==
    /\ succeeded' = succeeded \cup {op}
    /\ pc' = Succ(pc)
    /\ UNCHANGED <<raised, exc>>

Raise(op, k) ==
    /\ raised' = Append(raised, Error(op, k))
    /\ exc' = Propagated(Error(op, k))
    /\ pc' = Unwind(pc)
    /\ UNCHANGED succeeded

Suspend(op, at) ==
    /\ inflight' = inflight \cup {op}
    /\ pc' = at

Resume(op) == inflight' = inflight \ {op}

(* ------------------- line 64: async with DefaultAzureCredential() ------ *)
CredentialCtor ==
    /\ pc = "cred_ctor"
    /\ Invoke("DefaultAzureCredential", <<>>)
    /\ \/ /\ cred' = "constructed"
          /\ Complete("DefaultAzureCredential")
       \/ /\ \E k \in ErrorKinds : Raise("DefaultAzureCredential", k)
          /\ UNCHANGED cred
    /\ UNCHANGED <<env, client, inflight, conn, bing_tool, agent, tokens,
                   result, outcome, retval>>

CredentialEnter ==
    /\ pc = "cred_enter"
    /\ Invoke("credential.__aenter__", <<>>)
    /\ Suspend("credential.__aenter__", "cred_entering")
    /\ cred' = "entering"
    /\ UNCHANGED <<env, client, succeeded, raised, exc, conn, bing_tool,
                   agent, tokens, result, outcome, retval>>

CredentialEntered ==
    /\ pc = "cred_entering"
    /\ Resume("credential.__aenter__")
    /\ \/ /\ cred' = "held"
          /\ Complete("credential.__aenter__")
       \/ /\ cred' = "enter_failed"
          /\ \E k \in ErrorKinds : Raise("credential.__aenter__", k)
    /\ UNCHANGED <<env, client, calls, conn, bing_tool, agent, tokens,
                   result, outcome, retval>>

(* ------------------- lines 65-67: async with AIProjectClient(...) ------ *)
ProjectClientCtor ==
    /\ pc = "client_ctor"
    /\ Invoke("AIProjectClient", ProjectClientArgs)
    /\ \/ /\ client' = "constructed"
          /\ Complete("AIProjectClient")
       \/ /\ \E k \in ErrorKinds : Raise("AIProjectClient", k)
          /\ UNCHANGED client
    /\ UNCHANGED <<env, cred, inflight, conn, bing_tool, agent, tokens,
                   result, outcome, retval>>

ProjectClientEnter ==
    /\ pc = "client_enter"
    /\ Invoke("project_client.__aenter__", <<>>)
    /\ Suspend("project_client.__aenter__", "client_entering")
    /\ client' = "entering"
    /\ UNCHANGED <<env, cred, succeeded, raised, exc, conn, bing_tool,
                   agent, tokens, result, outcome, retval>>

ProjectClientEntered ==
    /\ pc = "client_entering"
    /\ Resume("project_client.__aenter__")
    /\ \/ /\ client' = "held"
          /\ Complete("project_client.__aenter__")
       \/ /\ client' = "enter_failed"
          /\ \E k \in ErrorKinds : Raise("project_client.__aenter__", k)
    /\ UNCHANGED <<env, cred, calls, conn, bing_tool, agent, tokens,
                   result, outcome, retval>>

(* ------------------- line 68: conn = await project_client.connections.get *)
ConnectionsGet ==
    /\ pc = "get"
    /\ Invoke("connections.get", ConnectionsGetArgs)
    /\ Suspend("connections.get", "getting")
    /\ UNCHANGED <<env, cred, client, succeeded, raised, exc, conn, bing_tool,
                   agent, tokens, result, outcome, retval>>

ConnectionsGetDone ==
    /\ pc = "getting"
    /\ Resume("connections.get")
    /\ \/ /\ \E c \in ConnIds : conn' = c
          /\ Complete("connections.get")
       \/ /\ \E k \in ErrorKinds : Raise("connections.get", k)
          /\ UNCHANGED conn
    /\ UNCHANGED <<env, cred, client, calls, bing_tool, agent, tokens,
                   result, outcome, retval>>

(* ------------------- line 70: bing_tool = BingGroundingTool(conn.id) ---- *)
BuildBingGroundingTool ==
    /\ pc = "tool"
    /\ Invoke("BingGroundingTool", [connection_id |-> conn])
    /\ \/ /\ bing_tool' = conn
          /\ Complete("BingGroundingTool")
       \/ /\ \E k \in ErrorKinds : Raise("BingGroundingTool", k)
          /\ UNCHANGED bing_tool
    /\ UNCHANGED <<env, cred, client, inflight, conn, agent, tokens,
                   result, outcome, retval>>

(* ------------------- lines 71-79: AzureAIAgent(...) --------------------- *)
BuildAzureAIAgent ==
    /\ pc = "agent"
    /\ Invoke("AzureAIAgent", AgentConfig(bing_tool))
    /\ \/ /\ agent' = 1
          /\ Complete("AzureAIAgent")
       \/ /\ \E k \in ErrorKinds : Raise("AzureAIAgent", k)
          /\ UNCHANGED agent
    /\ UNCHANGED <<env, cred, client, inflight, conn, bing_tool, tokens,
                   result, outcome, retval>>

(* ------------------- lines 84-93: result = await agent.on_messages(...) - *)
OnMessages ==
    /\ pc = "on_messages"
    /\ tokens' = tokens \cup {FreshToken}
    /\ Invoke("on_messages", OnMessagesArgs(FreshToken))
    /\ Suspend("on_messages", "awaiting_on_messages")
    /\ UNCHANGED <<env, cred, client, succeeded, raised, exc, conn, bing_tool,
                   agent, result, outcome, retval>>

OnMessagesDone ==
    /\ pc = "awaiting_on_messages"
    /\ Resume("on_messages")
    /\ \/ /\ \E r \in Responses : result' = r
          /\ Complete("on_messages")
       \/ /\ \E k \in ErrorKinds : Raise("on_messages", k)
          /\ UNCHANGED result
    /\ UNCHANGED <<env, cred, client, calls, conn, bing_tool, agent, tokens,
                   outcome, retval>>

(* ------------------- line 94: print(result) ----------------------------- *)
PrintResult ==
    /\ pc = "print"
    /\ Invoke("print", PrintArgs(result))
    /\ \/ Complete("print")
       \/ \E k \in ErrorKinds : Raise("print", k)
    /\ UNCHANGED <<env, cred, client, inflight, conn, bing_tool, agent, tokens,
                   result, outcome, retval>>

(* ------------------- leaving the AIProjectClient scope ------------------ *)
ProjectClientExit ==
    /\ pc = "client_exit"
    /\ Invoke("project_client.__aexit__", exc)
    /\ Suspend("project_client.__aexit__", "client_exiting")
    /\ client' = "exiting"
    /\ UNCHANGED <<env, cred, succeeded, raised, exc, conn, bing_tool,
                   agent, tokens, result, outcome, retval>>

ProjectClientExited ==
    /\ pc = "client_exiting"
    /\ Resume("project_client.__aexit__")
    /\ \/ /\ client' = "released"
          /\ succeeded' = succeeded \cup {"project_client.__aexit__"}
          /\ exc' = AfterExit(exc)
          /\ pc' = Succ(pc)
          /\ UNCHANGED raised
       \/ /\ client' = "release_failed"
          /\ \E k \in ErrorKinds : Raise("project_client.__aexit__", k)
    /\ UNCHANGED <<env, cred, calls, conn, bing_tool, agent, tokens,
                   result, outcome, retval>>

(* ------------------- leaving the DefaultAzureCredential scope ----------- *)
CredentialExit ==
    /\ pc = "cred_exit"
    /\ Invoke("credential.__aexit__", exc)
    /\ Suspend("credential.__aexit__", "cred_exiting")
    /\ cred' = "exiting"
    /\ UNCHANGED <<env, client, succeeded, raised, exc, conn, bing_tool,
                   agent, tokens, result, outcome, retval>>

CredentialExited ==
    /\ pc = "cred_exiting"
    /\ Resume("credential.__aexit__")
    /\ \/ /\ cred' = "released"
          /\ succeeded' = succeeded \cup {"credential.__aexit__"}
          /\ exc' = AfterExit(exc)
          /\ pc' = Succ(pc)
          /\ UNCHANGED raised
       \/ /\ cred' = "release_failed"
          /\ \E k \in ErrorKinds : Raise("credential.__aexit__", k)
    /\ UNCHANGED <<env, client, calls, conn, bing_tool, agent, tokens,
                   result, outcome, retval>>

(* ------------------- line 97: await bing_example() resumes -------------- *)
ReturnToCaller ==
    /\ pc = "return"
    /\ pc' = "caller"
    /\ \/ /\ exc = NoExc
          /\ outcome' = "returned"
          /\ retval' = ReturnValue(result)
       \/ /\ exc # NoExc
          /\ outcome' = "raised"
          /\ UNCHANGED retval
    /\ UNCHANGED <<env, cred, client, inflight, calls, succeeded, raised, exc,
                   conn, bing_tool, agent, tokens, result>>

Next ==
    \/ CredentialCtor
    \/ CredentialEnter
    \/ CredentialEntered
    \/ ProjectClientCtor
    \/ ProjectClientEnter
    \/ ProjectClientEntered
    \/ ConnectionsGet
    \/ ConnectionsGetDone
    \/ BuildBingGroundingTool
    \/ BuildAzureAIAgent
    \/ OnMessages
    \/ OnMessagesDone
    \/ PrintResult
    \/ ProjectClientExit
    \/ ProjectClientExited
    \/ CredentialExit
    \/ CredentialExited
    \/ ReturnToCaller

Spec == Init /\ [][Next]_vars

(* ------------------------------ typing --------------------------------- *)
TypeOK ==
    /\ env \in Environments
    /\ pc \in Positions
    /\ cred \in ScopeStates
    /\ client \in ScopeStates
    /\ outcome \in {"running", "returned", "raised"}
    /\ conn \in ConnIds \cup {NoneVal}
    /\ result \in Responses \cup {NoneVal}

(* ------------------------- observation helpers ------------------------- *)
Count(op) == Cardinality({i \in DOMAIN calls : calls[i].op = op})
Called(op) == Count(op) > 0
ArgsOf(op) == calls[CHOOSE i \in DOMAIN calls : calls[i].op = op].args
IndexOf(op) == CHOOSE i \in DOMAIN calls : calls[i].op = op
Failed(op) == \E i \in DOMAIN raised : raised[i].op = op
Last(s) == s[Len(s)]

AllOps == {"DefaultAzureCredential", "credential.__aenter__",
           "AIProjectClient", "project_client.__aenter__",
           "connections.get", "BingGroundingTool", "AzureAIAgent",
           "on_messages", "print",
           "project_client.__aexit__", "credential.__aexit__"}
ReleaseOps == {"project_client.__aexit__", "credential.__aexit__"}

Order == <<"DefaultAzureCredential", "credential.__aenter__",
           "AIProjectClient", "project_client.__aenter__",
           "connections.get", "BingGroundingTool", "AzureAIAgent",
           "on_messages">>
OrderOps == {Order[i] : i \in DOMAIN Order}
StepCalls == SelectSeq(calls, LAMBDA c : c.op \in OrderOps)

CredAcquired   == "credential.__aenter__" \in succeeded
ClientAcquired == "project_client.__aenter__" \in succeeded
\* a scope counts as released once its __aexit__ has been awaited to the end
CredReleased   == cred \in {"released", "release_failed"}
ClientReleased == client \in {"released", "release_failed"}
Holding(s)     == s \in {"entering", "held", "exiting"}

C2_FailFastOnMissingConnection ==
    Failed("connections.get") =>
        /\ ~Called("BingGroundingTool")
        /\ ~Called("AzureAIAgent")
        /\ ~Called("on_messages")
        /\ bing_tool = NoneVal /\ agent = NoneVal /\ tokens = {}

C2_Witness ==
    /\ pc = "caller"
    /\ Failed("connections.get")
    /\ outcome = "raised"

(* ------------------------------- C3 ------------------------------------ *)
\* C3 as stated: a run in which an acquisition, lookup, construction or
\* on_messages step raised ends with exactly that step's error, and no
\* operation is attempted twice.
C3_StepErrorReachesCaller ==
    pc = "caller" =>
        /\ \A i \in DOMAIN raised :
              raised[i].op \notin ReleaseOps =>
                  outcome = "raised" /\ exc = raised[i]
        /\ \A op \in AllOps : Count(op) <= 1

\* C3 amended: nothing is caught, wrapped or retried; the caller receives the
\* error of the last operation that raised, which is the failed step's own
\* error unless a scope's __aexit__ raised while unwinding.
C3_LastErrorReachesCaller ==
    /\ \A op \in AllOps : Count(op) <= 1
    /\ Cardinality({i \in DOMAIN raised : raised[i].op \notin ReleaseOps}) <= 1
    /\ pc = "caller" =>
          /\ (raised # <<>>) <=> (outcome = "raised")
          /\ raised # <<>> =>
                /\ exc = Last(raised)
                /\ (\A i \in DOMAIN raised : raised[i].op \notin ReleaseOps)
                      => exc = raised[1]
          /\ raised = <<>> => exc = NoExc

C3_Witness ==
    /\ pc = "caller"
    /\ outcome = "raised"
    /\ Len(raised) = 2
    /\ raised[1].op = "on_messages"
    /\ exc.op = "project_client.__aexit__"

(* ------------------------------- C4 ------------------------------------ *)
\* C4: the steps are started in the order credential, project client,
\* connection lookup, tool, agent, on_messages; a step is started only after
\* the previous one completed successfully, and at most one is in progress.
C4_StrictlySequential ==
    /\ Len(StepCalls) <= Len(Order)
    /\ \A i \in DOMAIN StepCalls :
          /\ StepCalls[i].op = Order[i]
          /\ i > 1 => Order[i - 1] \in succeeded
    /\ Cardinality(inflight) <= 1
    /\ \A op \in inflight : Last(calls).op = op /\ op \notin succeeded

C4_Witness ==
    /\ Len(StepCalls) = Len(Order)
    /\ "on_messages" \in succeeded

(* ------------------------------- C5 ------------------------------------ *)
\* C5: on_messages is invoked at most once, exactly once when every step
\* before it succeeded, and with a list of exactly one message.
C5_ExactlyOneExchange ==
    /\ Count("on_messages") <= 1
    /\ (OrderOps \ {"on_messages"}) \subseteq succeeded /\ pc # "on_messages"
          => Count("on_messages") = 1
    /\ Called("on_messages") => Len(ArgsOf("on_messages").messages) = 1

C5_Witness ==
    /\ pc = "caller"
    /\ Count("on_messages") = 1
    /\ "on_messages" \in succeeded

(* ------------------------------- C6 ------------------------------------ *)
\* C6 as stated: the token and the limit received by on_messages are the
\* ones the caller of bing_example supplied.
C6_ForwardsCallerTokenAndLimit ==
    Called("on_messages") =>
        /\ ArgsOf("on_messages").cancellation_token = Supplied("cancellation_token")
        /\ ArgsOf("on_messages").message_limit = Supplied("message_limit")
        /\ Cardinality(tokens) = 1

\* C6 amended: bing_example takes nothing from its caller; it creates exactly
\* one CancellationToken per call and hands that token and the literal
\* message_limit 5 to on_messages.
C6_OwnTokenAndLimit ==
    /\ DOMAIN CallerArgs = {}
    /\ Cardinality(tokens) <= 1
    /\ Called("on_messages") <=> tokens # {}
    /\ Called("on_messages") =>
          /\ ArgsOf("on_messages").cancellation_token \in tokens
          /\ ArgsOf("on_messages").cancellation_token # NoneVal
          /\ ArgsOf("on_messages").message_limit = MessageLimit

C6_Witness ==
    /\ "on_messages" \in inflight
    /\ Cardinality(tokens) = 1

(* ------------------------------- C7 ------------------------------------ *)
\* C7 as stated: when on_messages returned R, bing_example returns R.
C7_ReturnsResponse ==
    pc = "caller" /\ outcome = "returned" => retval = result

\* C7 amended: when on_messages returned R for the fixed input message,
\* bing_example hands exactly R to print and itself returns None.
C7_PrintsResponseReturnsNone ==
    /\ Called("on_messages") =>
          ArgsOf("on_messages").messages[1] = TextMessage(MessageContent, "user")
    /\ Called("print") <=> "on_messages" \in succeeded /\ pc # "print"
    /\ Called("print") =>
          /\ result \in Responses
          /\ ArgsOf("print") = <<result>>
          /\ Count("print") = 1
    /\ pc = "caller" /\ outcome = "returned" =>
          /\ retval = NoneVal
          /\ Called("print")

C7_Witness ==
    /\ pc = "caller"
    /\ outcome = "returned"
    /\ result = MaxResp
    /\ ArgsOf("print") = <<MaxResp>>

(* ------------------------------- C8 ------------------------------------ *)
\* C8: every external call that consumes configuration is issued with a
\* non-empty endpoint, connection name, deployment name and instructions.
C8_ConfigurationPopulated ==
    /\ Called("AIProjectClient") => ArgsOf("AIProjectClient").endpoint # ""
    /\ Called("connections.get") => ArgsOf("connections.get").name # ""
    /\ Called("AzureAIAgent") =>
          /\ ArgsOf("AzureAIAgent").deployment_name # ""
          /\ ArgsOf("AzureAIAgent").instructions # ""

(* ------------------------------- C9 ------------------------------------ *)
\* C9: while the project client is held the credential is held; the project
\* client's __aexit__ has finished before the credential's starts; and
\* connections.get and on_messages are in progress only with both held.
C9_ScopesNested ==
    /\ Holding(client) => cred = "held"
    /\ (client # "none" /\ client # "enter_failed") => cred # "none"
    /\ Called("credential.__aexit__") =>
          /\ ~Holding(client)
          /\ client # "constructed"
          /\ ClientAcquired =>
                /\ ClientReleased
                /\ IndexOf("project_client.__aexit__") < IndexOf("credential.__aexit__")
    /\ inflight \cap {"connections.get", "on_messages"} # {} =>
          cred = "held" /\ client = "held"

C9_Witness ==
    /\ pc = "caller"
    /\ "on_messages" \in succeeded
    /\ client = "released"
    /\ cred = "released"

(* ------------------------------- C10 ----------------------------------- *)
\* C10: a scope's __aexit__ runs exactly once if its __aenter__ succeeded and
\* not at all otherwise: a failed credential open releases nothing and never
\* opens the project client; a failed project-client open releases the
\* credential once and the project client never.
C10_ReleasedOnceIffAcquired ==
    /\ Count("credential.__aexit__") <= 1
    /\ Count("project_client.__aexit__") <= 1
    /\ Called("credential.__aexit__") => CredAcquired
    /\ Called("project_client.__aexit__") => ClientAcquired
    /\ pc = "caller" =>
          /\ CredAcquired => Count("credential.__aexit__") = 1
          /\ ClientAcquired => Count("project_client.__aexit__") = 1
    /\ Failed("DefaultAzureCredential") \/ Failed("credential.__aenter__") =>
          /\ ~Called("credential.__aexit__")
          /\ ~Called("project_client.__aexit__")
          /\ ~Called("AIProjectClient")
          /\ ~Called("project_client.__aenter__")
    /\ Failed("AIProjectClient") \/ Failed("project_client.__aenter__") =>
          /\ ~Called("project_client.__aexit__")
          /\ pc = "caller" => Count("credential.__aexit__") = 1

C10_Witness ==
    /\ pc = "caller"
    /\ Failed("project_client.__aenter__")
    /\ CredReleased
    /\ Count("credential.__aexit__") = 1
    /\ Count("project_client.__aexit__") = 0

====
